---- MODULE Spec2Model ----
(***************************************************************************)
(* Model of Vectorized<float> (AVX2, 8 lanes of 32-bit patterns) and of    *)
(* the blocked transpose built on it:                                      *)
(*   aten/src/ATen/cpu/vec/vec256/vec256_float.h                           *)
(* and of the oneDNN tensor shim                                           *)
(*   torch/csrc/inductor/aoti_torch/onednn_tensor.cpp                      *)
(* A float is its 32-bit pattern, held as the fields <<sign, exponent,      *)
(* mantissa>> (1, 8 and 23 bits); a lane value is 8 of them. Memory is a   *)
(* function 0..len-1 -> float; every access is recorded in reads / writes, *)
(* so that out-of-range accesses are visible.                              *)
(***************************************************************************)
EXTENDS Integers, Sequences, FiniteSets, TLC

VARIABLES
  pc,      \* "ready" | "done" | "error" | later stages of a chained call
  args,    \* the call being made: function name and scalar arguments
  src,     \* the memory behind the source pointer
  dst,     \* the memory behind the destination pointer
  back,    \* the memory a second, reverse call writes to
  reads,   \* the source indices the call has read
  writes,  \* the destination indices the call has written
  va,      \* lane-value operand a
  vb,      \* lane-value operand b
  ret,     \* the value(s) returned
  calls,   \* the microkernel calls made by transpose_mxn, in order
  err      \* the message of the error raised, "" when none

vars == <<pc, args, src, dst, back, reads, writes, va, vb, ret, calls, err>>

----------------------------------------------------------------------------
(* Bounds of the model *)

\* transpose_mxn_8x8 is called with M, N in 0..MaxBlock (above 8: the check)
MaxBlock == 10
\* transpose_mxn is called with M, N in 0..MaxM (two full tiles and a rest)
MaxM == 17
\* the leading dimensions exceed the row length by 0..MaxPad
MaxPad == 1
\* set is called with count in 0..MaxCount (above 8: the default branch)
MaxCount == 10
\* memory contents and operands are drawn by a seed in 0..MaxSeed
MaxSeed == 3
\* tensor and data pointers are drawn from 0..MaxPtr (0 is the null pointer)
MaxPtr == 2

----------------------------------------------------------------------------
(* Lane values and the intrinsics used *)

size == 8

Lanes == 0..(size - 1)

Pow2(n) == 2 ^ n

\* bit k of an integer mask
Bit(m, k) == (m \div Pow2(k)) % 2 = 1

\* the float with the given sign bit, biased exponent and mantissa fields
F(s, e, m) == <<s, e, m>>

SignOf(x) == x[1]

ExpOf(x) == x[2]

MantOf(x) == x[3]

\* 0.0f
Zero == F(0, 0, 0)

\* what a read outside the allocation yields: no float at all
Poison == F(0, 0, 0 - 1)

Rd(mem, idx) == IF idx \in DOMAIN mem THEN mem[idx] ELSE Poison

\* a lane value built lane by lane; lane k is v[k + 1]
Vec(f) == <<f[0], f[1], f[2], f[3], f[4], f[5], f[6], f[7]>>

Lane(v, k) == v[k + 1]

_mm256_setzero_ps == Vec([k \in Lanes |-> Zero])

_mm256_loadu_ps(mem, p) == Vec([k \in Lanes |-> Rd(mem, p + k)])

_mm256_maskz_loadu_ps(mask, mem, p) ==
  Vec([k \in Lanes |-> IF Bit(mask, k) THEN Rd(mem, p + k) ELSE Zero])

\* the memory indices a masked access at p touches
MaskedIdx(mask, p) == {p + k : k \in {l \in Lanes : Bit(mask, l)}}

_mm256_unpacklo_ps(x, y) ==
  Vec([k \in Lanes |->
        LET h == (k \div 4) * 4
            r == k % 4
        IN  IF r % 2 = 0 THEN Lane(x, h + (r \div 2))
            ELSE Lane(y, h + (r \div 2))])

_mm256_unpackhi_ps(x, y) ==
  Vec([k \in Lanes |->
        LET h == (k \div 4) * 4
            r == k % 4
        IN  IF r % 2 = 0 THEN Lane(x, h + 2 + (r \div 2))
            ELSE Lane(y, h + 2 + (r \div 2))])

_mm256_shuffle_ps(x, y, imm) ==
  Vec([k \in Lanes |->
        LET h == (k \div 4) * 4
            r == k % 4
            sel == (imm \div (4 ^ r)) % 4
        IN  IF r < 2 THEN Lane(x, h + sel) ELSE Lane(y, h + sel)])

\* one 128-bit half of the result of _mm256_permute2f128_ps
PermuteHalf(x, y, ctl, k) ==
  IF (ctl \div 8) % 2 = 1 THEN Zero
  ELSE CASE ctl % 4 = 0 -> Lane(x, k)
         [] ctl % 4 = 1 -> Lane(x, 4 + k)
         [] ctl % 4 = 2 -> Lane(y, k)
         [] ctl % 4 = 3 -> Lane(y, 4 + k)

_mm256_permute2f128_ps(x, y, imm) ==
  Vec([k \in Lanes |->
        IF k < 4 THEN PermuteHalf(x, y, imm % 16, k)
        ELSE PermuteHalf(x, y, (imm \div 16) % 16, k - 4)])

\* the register array r[0..7] built register by register; r[i] is Reg(r, i)
Regs(f) == <<f[0], f[1], f[2], f[3], f[4], f[5], f[6], f[7]>>

Reg(r, i) == r[i + 1]

----------------------------------------------------------------------------
(* transpose_mxn_8x8 *)

\* __mmask8 m = (1 << n) - 1
Mask8(n) == (Pow2(n) - 1) % 256

\* load from src to registers; rows M..7 are zeroed
LoadStage(mem, so, ld_src, M, N) ==
  Regs([i \in Lanes |->
     IF i < M
     THEN IF N = 8
          THEN _mm256_loadu_ps(mem, so + i * ld_src)
          ELSE _mm256_maskz_loadu_ps(Mask8(N), mem, so + i * ld_src)
     ELSE _mm256_setzero_ps])

LoadReads(so, ld_src, M, N) ==
  UNION {MaskedIdx(IF N = 8 THEN 255 ELSE Mask8(N), so + i * ld_src) :
           i \in {l \in Lanes : l < M}}

\* unpacking and interleaving 32-bit elements
UnpackStage(input, M) ==
  Regs([i \in Lanes |->
     IF (i \div 2) < ((M + 1) \div 2)
     THEN IF i % 2 = 0
          THEN _mm256_unpacklo_ps(Reg(input, i), Reg(input, i + 1))
          ELSE _mm256_unpackhi_ps(Reg(input, i - 1), Reg(input, i))
     ELSE _mm256_setzero_ps])

\* shuffling the 32-bit elements
ShuffleStage(input, temp, M) ==
  Regs([i \in Lanes |->
     IF (i \div 4) < ((M + 3) \div 4)
     THEN LET q == (i \div 4) * 4
          IN  CASE i % 4 = 0 ->
                     _mm256_shuffle_ps(Reg(temp, q), Reg(temp, q + 2), 68)
                [] i % 4 = 1 ->
                     _mm256_shuffle_ps(Reg(temp, q), Reg(temp, q + 2), 238)
                [] i % 4 = 2 ->
                     _mm256_shuffle_ps(Reg(temp, q + 1), Reg(temp, q + 3), 68)
                [] i % 4 = 3 ->
                     _mm256_shuffle_ps(Reg(temp, q + 1), Reg(temp, q + 3), 238)
     ELSE Reg(input, i)])

\* PermuteStage with the operands of the upper rows exchanged
PermuteStage_swapped(input, temp, N) ==
  Regs([i \in Lanes |->
     IF i < N
     THEN IF i < 4
          THEN _mm256_permute2f128_ps(Reg(input, 4 + i), Reg(input, i), 2)
          ELSE _mm256_permute2f128_ps(Reg(input, i - 4), Reg(input, i), 19)
     ELSE Reg(temp, i)])

\* shuffling 128-bit elements
PermuteStage(input, temp, N) ==
  Regs([i \in Lanes |->
     IF i < N
     THEN IF i < 4
          THEN _mm256_permute2f128_ps(Reg(input, 4 + i), Reg(input, i), 2)
          ELSE _mm256_permute2f128_ps(Reg(input, i), Reg(input, i - 4), 19)
     ELSE Reg(temp, i)])

\* StoreRow with the mask forgotten: every row is stored full width
StoreRow_unmasked(do, ld_dst, M, i) == MaskedIdx(255, do + i * ld_dst)

\* the destination indices row i of the store loop writes
StoreRow(do, ld_dst, M, i) ==
  MaskedIdx(IF M = 8 THEN 255 ELSE Mask8(M), do + i * ld_dst)

StoreWrites(do, ld_dst, M, N) ==
  UNION {StoreRow(do, ld_dst, M, i) : i \in {l \in Lanes : l < N}}

\* the row of the store loop that writes destination index x last
LastRow(do, ld_dst, M, N, x) ==
  CHOOSE r \in Lanes :
    /\ r < N
    /\ x \in StoreRow(do, ld_dst, M, r)
    /\ \A o \in Lanes :
         (o < N /\ x \in StoreRow(do, ld_dst, M, o)) => o <= r

\* memory after the stores: index x of the written set W takes its lane
Stored(mem, W, do, ld_dst, temp, M, N) ==
  [x \in DOMAIN mem |->
     IF x \in W
     THEN LET i == LastRow(do, ld_dst, M, N, x)
          IN  Lane(Reg(temp, i), x - (do + i * ld_dst))
     ELSE mem[x]] @@ <<>>

\* store from registers to dst, rows 0..N-1 in order (a later row wins)
StoreStage(mem, do, ld_dst, temp, M, N) ==
  Stored(mem, StoreWrites(do, ld_dst, M, N), do, ld_dst, temp, M, N)

\* the stages after the load
Stages(input0, temp0, dmem, do, ld_dst, M, N) ==
  StoreStage(dmem, do, ld_dst,
             PermuteStage(ShuffleStage(input0, temp0, M), temp0, N), M, N)

\* the body of transpose_mxn_8x8 after its check
Kernel8x8(smem, so, ld_src, dmem, do, ld_dst, M, N) ==
  [err    |-> "",
   dst    |-> Stages(LoadStage(smem, so, ld_src, M, N),
                     UnpackStage(LoadStage(smem, so, ld_src, M, N), M),
                     dmem, do, ld_dst, M, N),
   reads  |-> LoadReads(so, ld_src, M, N),
   writes |-> StoreWrites(do, ld_dst, M, N)]

ErrBlock == "transpose_mxn<float> expects M, N <= 8."

Min(x, y) == IF x < y THEN x ELSE y

\* transpose_mxn_8x8 without its check, the block cut down to 8 x 8
transpose_mxn_8x8_truncating(smem, so, ld_src, dmem, do, ld_dst, M, N) ==
  Kernel8x8(smem, so, ld_src, dmem, do, ld_dst, Min(M, 8), Min(N, 8))

transpose_mxn_8x8(smem, so, ld_src, dmem, do, ld_dst, M, N) ==
  IF ~(M <= 8 /\ N <= 8)
  THEN [err |-> ErrBlock, dst |-> dmem, reads |-> {}, writes |-> {}]
  ELSE Kernel8x8(smem, so, ld_src, dmem, do, ld_dst, M, N)

----------------------------------------------------------------------------
(* transpose_mxn<float> *)

Call8x8(so, do, m, n) == [so |-> so, do |-> do, M |-> m, N |-> n]

\* for (j = 0; j < N / 8 * 8; j += 8) in the row band starting at row i
FullCols(i, m, ld_src, ld_dst, N) ==
  [c \in 1..(N \div 8) |->
     Call8x8(i * ld_src + (c - 1) * 8, (c - 1) * 8 * ld_dst + i, m, 8)]

\* one iteration of the loop over full row bands: the remainder call is
\* guarded by nrem > 0
BandFull(i, ld_src, ld_dst, N) ==
  LET j    == (N \div 8) * 8
      nrem == N - j
  IN  FullCols(i, 8, ld_src, ld_dst, N) \o
      (IF nrem > 0 THEN <<Call8x8(i * ld_src + j, j * ld_dst + i, 8, nrem)>>
       ELSE <<>>)

\* BandRem with the corner block forgotten
BandRem_nocorner(i, mrem, ld_src, ld_dst, N) ==
  FullCols(i, mrem, ld_src, ld_dst, N)

\* the remainder band (mrem > 0): the last call is not guarded
BandRem(i, mrem, ld_src, ld_dst, N) ==
  LET j    == (N \div 8) * 8
      nrem == N - j
  IN  FullCols(i, mrem, ld_src, ld_dst, N) \o
      <<Call8x8(i * ld_src + j, j * ld_dst + i, mrem, nrem)>>

RECURSIVE FullBands(_, _, _, _, _)
\* for (i = 0; i < M / 8 * 8; i += 8), from row i on
FullBands(i, ld_src, ld_dst, M, N) ==
  IF i < (M \div 8) * 8
  THEN BandFull(i, ld_src, ld_dst, N) \o FullBands(i + 8, ld_src, ld_dst, M, N)
  ELSE <<>>

\* the calls of transpose_mxn_8x8 that transpose_mxn makes, in order
TileCalls(ld_src, ld_dst, M, N) ==
  LET i    == (M \div 8) * 8
      mrem == M - i
  IN  FullBands(0, ld_src, ld_dst, M, N) \o
      (IF mrem > 0 THEN BandRem(i, mrem, ld_src, ld_dst, N) ELSE <<>>)

\* the state after one more call returned or threw r
Merge(st, r) ==
  [err    |-> r.err,
   dst    |-> r.dst,
   reads  |-> st.reads \cup r.reads,
   writes |-> st.writes \cup r.writes]

RECURSIVE RunCalls(_, _, _, _, _, _)
\* the calls cs[k..] made one after the other; an error ends the run
RunCalls(cs, k, smem, ld_src, ld_dst, st) ==
  IF k > Len(cs) \/ st.err # "" THEN st
  ELSE RunCalls(cs, k + 1, smem, ld_src, ld_dst,
                Merge(st, transpose_mxn_8x8(smem, cs[k].so, ld_src, st.dst,
                                            cs[k].do, ld_dst, cs[k].M, cs[k].N)))

transpose_mxn(smem, ld_src, dmem, ld_dst, M, N) ==
  RunCalls(TileCalls(ld_src, ld_dst, M, N), 1, smem, ld_src, ld_dst,
           [err |-> "", dst |-> dmem, reads |-> {}, writes |-> {}])

----------------------------------------------------------------------------
(* The transpose specification: the arguments are drawn in Init *)

\* an allocation holding exactly `rows` rows of `cols` elements, stride ld
MatLen(rows, cols, ld) ==
  IF rows = 0 \/ cols = 0 THEN 0 ELSE (rows - 1) * ld + cols

ArgsT(fn, max) ==
  {[fn |-> fn, M |-> m, N |-> n, ld_src |-> n + p, ld_dst |-> m + q] :
     m \in 0..max, n \in 0..max, p \in 0..MaxPad, q \in 0..MaxPad}

NoLane == <<>>

\* the destination before the call: one row more than the transpose needs,
\* every element different from every source element and from zero
DstInit(a) == [k \in 0..((a.N + 1) * a.ld_dst - 1) |-> F(0, 1, k)]

InitT ==
  /\ pc = "ready"
  /\ args \in ArgsT("transpose_mxn_8x8", MaxBlock) \cup
               ArgsT("transpose_mxn", MaxM)
  /\ src = [k \in 0..(MatLen(args.M, args.N, args.ld_src) - 1) |-> F(0, 0, k + 1)]
  /\ dst = DstInit(args)
  /\ back = [k \in 0..(MatLen(args.M, args.N, args.ld_src) - 1) |-> F(0, 2, k)]
  /\ reads = {}
  /\ writes = {}
  /\ va = NoLane
  /\ vb = NoLane
  /\ ret = NoLane
  /\ calls = <<>>
  /\ err = ""

\* the call has returned or thrown r: its effects on the destination
Returned(r) ==
  /\ pc' = IF r.err = "" THEN "done" ELSE "error"
  /\ dst' = r.dst
  /\ reads' = r.reads
  /\ writes' = r.writes
  /\ err' = r.err

\* transpose_mxn_8x8(src, ld_src, dst, ld_dst, M, N)
CallTranspose8x8 ==
  /\ pc = "ready"
  /\ args.fn = "transpose_mxn_8x8"
  /\ Returned(transpose_mxn_8x8(src, 0, args.ld_src, dst, 0, args.ld_dst,
                                args.M, args.N))
  /\ UNCHANGED <<args, src, back, va, vb, ret, calls>>

\* the reverse call has returned or thrown r: its effects on back
ReturnedBack(r) ==
  /\ pc' = IF r.err = "" THEN "back" ELSE "error"
  /\ back' = r.dst
  /\ reads' = r.reads
  /\ writes' = r.writes
  /\ err' = r.err

\* transpose_mxn_8x8(dst, ld_dst, back, ld_src, N, M): the result of the
\* first call transposed again, with M and N swapped
CallTransposeBack ==
  /\ pc = "done"
  /\ args.fn = "transpose_mxn_8x8"
  /\ ReturnedBack(transpose_mxn_8x8(dst, 0, args.ld_dst, back, 0, args.ld_src,
                                    args.N, args.M))
  /\ UNCHANGED <<args, src, dst, va, vb, ret, calls>>

\* transpose_mxn<float>(src, ld_src, dst, ld_dst, M, N)
CallTransposeMxN ==
  /\ pc = "ready"
  /\ args.fn = "transpose_mxn"
  /\ Returned(transpose_mxn(src, args.ld_src, dst, args.ld_dst, args.M, args.N))
  /\ calls' = TileCalls(args.ld_src, args.ld_dst, args.M, args.N)
  /\ UNCHANGED <<args, src, back, va, vb, ret>>

NextT == CallTranspose8x8 \/ CallTransposeBack \/ CallTransposeMxN

SpecT == InitT /\ [][NextT]_vars

----------------------------------------------------------------------------
(* blend, set, loadu, store *)

\* floats that memory and operands are filled with: +0, 1, 2, 0.5, the
\* smallest denormal, FLT_MAX, +Inf, a quiet and a signalling NaN, and the
\* negative ones among them (the last is the all-ones pattern)
Samples ==
  << F(0, 0, 0), F(0, 127, 0), F(0, 128, 0), F(0, 126, 0), F(0, 0, 1),
     F(0, 254, 8388607), F(0, 255, 0), F(0, 255, 4194304), F(0, 255, 1),
     F(1, 0, 0), F(1, 127, 0), F(1, 128, 0), F(1, 255, 0),
     F(1, 255, 8388607) >>

Sample(n) == Samples[(n % Len(Samples)) + 1]

\* the lane value holding samples p, p+1, ..., p+7
SampleVec(p) == Vec([k \in Lanes |-> Sample(p + k)])

\* the lane value holding samples q, q+3, ..., q+21
SampleVec3(q) == Vec([k \in Lanes |-> Sample(q + 3 * k)])

\* what an uninitialized array may hold
Junk == {F(1, 255, 8388607), F(0, 85, 5592405)}

\* _mm256_blend_ps(a, b, mask): lane k of b where bit k of mask is set
_mm256_blend_ps(a, b, mask) ==
  Vec([k \in Lanes |-> IF Bit(mask, k) THEN Lane(b, k) ELSE Lane(a, k)])

\* blend with its operands exchanged
blend_swapped(a, b, mask) == _mm256_blend_ps(b, a, mask)

blend(a, b, mask) == _mm256_blend_ps(a, b, mask)

\* the switch of set: blend<1>, blend<3>, ..., blend<127>
set(a, b, count) ==
  CASE count = 0 -> a
    [] count = 1 -> blend(a, b, 1)
    [] count = 2 -> blend(a, b, 3)
    [] count = 3 -> blend(a, b, 7)
    [] count = 4 -> blend(a, b, 15)
    [] count = 5 -> blend(a, b, 31)
    [] count = 6 -> blend(a, b, 63)
    [] count = 7 -> blend(a, b, 127)
    [] OTHER -> b

\* ZeroLoop forgotten: the array keeps what it held
ZeroLoop_skipped(tmp) == tmp

\* for (i : irange(size())) tmp_values[i] = 0.0
ZeroLoop(tmp) == [i \in Lanes |-> Zero]

\* std::memcpy(to, from, count * sizeof(float)), to and from indexed from 0
MemcpyTo(to, from, count) ==
  [i \in DOMAIN to |-> IF i < count THEN Rd(from, i) ELSE to[i]] @@ <<>>

\* loadu(ptr, count), tmp0 what tmp_values holds on entry
loadu(mem, count, tmp0) ==
  IF count = size
  THEN [ret |-> _mm256_loadu_ps(mem, 0), reads |-> 0..(size - 1)]
  ELSE [ret   |-> _mm256_loadu_ps(MemcpyTo(ZeroLoop(tmp0), mem, count), 0),
        reads |-> 0..(count - 1)]

\* _mm256_storeu_ps(p, v), p indexed from 0
_mm256_storeu_ps(mem, v) ==
  [i \in DOMAIN mem |-> IF i \in Lanes THEN Lane(v, i) ELSE mem[i]] @@ <<>>

\* store with the count ignored: always the full-width store
store_full(v, mem, count, tmp0) ==
  [dst |-> _mm256_storeu_ps(mem, v), writes |-> 0..(size - 1)]

\* v.store(ptr, count), tmp0 what tmp_values holds on entry
store(v, mem, count, tmp0) ==
  IF count = size
  THEN [dst |-> _mm256_storeu_ps(mem, v), writes |-> 0..(size - 1)]
  ELSE IF count > 0
  THEN [dst    |-> MemcpyTo(mem, _mm256_storeu_ps(tmp0, v), count),
        writes |-> 0..(count - 1)]
  ELSE [dst |-> mem, writes |-> {}]

----------------------------------------------------------------------------
(* The set / loadu / store specification *)

ArgsLoad ==
  {[fn |-> "loadu", count |-> c, seed |-> p, junk |-> g] :
     c \in 0..size, p \in 0..MaxSeed, g \in Junk}

ArgsSet ==
  {[fn |-> "set", count |-> c, seed |-> p, junk |-> g] :
     c \in 0..MaxCount, p \in 0..MaxSeed, g \in Junk}

\* the buffer stored to, before the store: count elements and two more
BufInit(a) == [k \in 0..(a.count + 1) |-> F(0, 1, k)]

\* an uninitialized float[8] holding junk
TmpValues(g) == [i \in Lanes |-> g]

InitIO ==
  /\ pc = "ready"
  /\ args \in ArgsLoad \cup ArgsSet
  \* ptr points at exactly count elements
  /\ src = [k \in 0..(args.count - 1) |-> Sample(args.seed + k)]
  /\ dst = BufInit(args)
  /\ back = <<>>
  /\ reads = {}
  /\ writes = {}
  /\ va = IF args.fn = "set" THEN SampleVec(args.seed) ELSE NoLane
  /\ vb = IF args.fn = "set" THEN Vec([k \in Lanes |-> args.junk]) ELSE NoLane
  /\ ret = NoLane
  /\ calls = <<>>
  /\ err = ""

\* the load has returned r
Loaded(r) ==
  /\ ret' = r.ret
  /\ reads' = r.reads

\* ret = Vectorized<float>::loadu(ptr, count)
CallLoadu ==
  /\ pc = "ready"
  /\ args.fn = "loadu"
  /\ Loaded(loadu(src, args.count, TmpValues(args.junk)))
  /\ pc' = "loaded"
  /\ UNCHANGED <<args, src, dst, back, writes, va, vb, calls, err>>

\* the store has returned r
StoredTo(r) ==
  /\ dst' = r.dst
  /\ writes' = r.writes

\* ret.store(buf, count), on the value loaded
CallStore ==
  /\ pc = "loaded"
  /\ args.fn = "loadu"
  /\ StoredTo(store(ret, dst, args.count, TmpValues(args.junk)))
  /\ pc' = "stored"
  /\ UNCHANGED <<args, src, back, reads, va, vb, ret, calls, err>>

\* ret = Vectorized<float>::set(a, b, count)
CallSet ==
  /\ pc = "ready"
  /\ args.fn = "set"
  /\ ret' = set(va, vb, args.count)
  /\ pc' = "done"
  /\ UNCHANGED <<args, src, dst, back, reads, writes, va, vb, calls, err>>

NextIO == CallLoadu \/ CallStore \/ CallSet

SpecIO == InitIO /\ [][NextIO]_vars

----------------------------------------------------------------------------
(* Comparisons, eq .. le, maximum, minimum *)

IsNaN(x) == ExpOf(x) = 255 /\ MantOf(x) # 0

\* an integer ordered as the value of the float x, x not a NaN (both zeros
\* are 0; the magnitude of a float grows with its exponent and mantissa)
Val(x) ==
  IF SignOf(x) = 1 THEN 0 - (ExpOf(x) * 8388608 + MantOf(x))
  ELSE ExpOf(x) * 8388608 + MantOf(x)

\* the lane with all 32 bits set
AllOnes == F(1, 255, 8388607)

\* 1.0f
One == F(0, 127, 0)

\* the predicate of _mm256_cmp_ps on one lane
CmpLane(x, y, pred) ==
  LET unord == IsNaN(x) \/ IsNaN(y)
  IN  CASE pred = "_CMP_EQ_OQ"  -> ~unord /\ Val(x) = Val(y)
        [] pred = "_CMP_NEQ_UQ" -> unord \/ Val(x) # Val(y)
        [] pred = "_CMP_NEQ_OQ" -> ~unord /\ Val(x) # Val(y)
        [] pred = "_CMP_LT_OQ"  -> ~unord /\ Val(x) < Val(y)
        [] pred = "_CMP_LE_OQ"  -> ~unord /\ Val(x) <= Val(y)
        [] pred = "_CMP_GT_OQ"  -> ~unord /\ Val(x) > Val(y)
        [] pred = "_CMP_GE_OQ"  -> ~unord /\ Val(x) >= Val(y)
        [] pred = "_CMP_UNORD_Q" -> unord

_mm256_cmp_ps(a, b, pred) ==
  Vec([k \in Lanes |->
        IF CmpLane(Lane(a, k), Lane(b, k), pred) THEN AllOnes ELSE Zero])

RECURSIVE BitAnd(_, _)
\* the bitwise and of two naturals
BitAnd(x, y) ==
  IF x = 0 \/ y = 0 THEN 0
  ELSE (x % 2) * (y % 2) + 2 * BitAnd(x \div 2, y \div 2)

RECURSIVE BitOr(_, _)
\* the bitwise or of two naturals
BitOr(x, y) ==
  IF x = 0 THEN y
  ELSE IF y = 0 THEN x
  ELSE (IF x % 2 = 1 \/ y % 2 = 1 THEN 1 ELSE 0) + 2 * BitOr(x \div 2, y \div 2)

_mm256_and_ps(a, b) ==
  Vec([k \in Lanes |->
        F(BitAnd(SignOf(Lane(a, k)), SignOf(Lane(b, k))),
          BitAnd(ExpOf(Lane(a, k)), ExpOf(Lane(b, k))),
          BitAnd(MantOf(Lane(a, k)), MantOf(Lane(b, k))))])

_mm256_or_ps(a, b) ==
  Vec([k \in Lanes |->
        F(BitOr(SignOf(Lane(a, k)), SignOf(Lane(b, k))),
          BitOr(ExpOf(Lane(a, k)), ExpOf(Lane(b, k))),
          BitOr(MantOf(Lane(a, k)), MantOf(Lane(b, k))))])

\* vmaxps: the second operand when both are zero or either is a NaN
_mm256_max_ps(a, b) ==
  Vec([k \in Lanes |->
        LET x == Lane(a, k)
            y == Lane(b, k)
        IN  IF IsNaN(x) \/ IsNaN(y) THEN y
            ELSE IF Val(x) > Val(y) THEN x ELSE y])

\* vminps: the second operand when both are zero or either is a NaN
_mm256_min_ps(a, b) ==
  Vec([k \in Lanes |->
        LET x == Lane(a, k)
            y == Lane(b, k)
        IN  IF IsNaN(x) \/ IsNaN(y) THEN y
            ELSE IF Val(x) < Val(y) THEN x ELSE y])

\* Vectorized<float>(val): _mm256_set1_ps
_mm256_set1_ps(val) == Vec([k \in Lanes |-> val])

operator_eq(a, b) == _mm256_cmp_ps(a, b, "_CMP_EQ_OQ")

\* operator!= with the ordered predicate
operator_ne_ordered(a, b) == _mm256_cmp_ps(a, b, "_CMP_NEQ_OQ")

operator_ne(a, b) == _mm256_cmp_ps(a, b, "_CMP_NEQ_UQ")

operator_lt(a, b) == _mm256_cmp_ps(a, b, "_CMP_LT_OQ")

operator_le(a, b) == _mm256_cmp_ps(a, b, "_CMP_LE_OQ")

operator_gt(a, b) == _mm256_cmp_ps(a, b, "_CMP_GT_OQ")

operator_ge(a, b) == _mm256_cmp_ps(a, b, "_CMP_GE_OQ")

\* operator&
operator_and(a, b) == _mm256_and_ps(a, b)

\* eq returning the mask itself
eq_mask(a, b) == operator_eq(a, b)

eq(a, b) == operator_and(operator_eq(a, b), _mm256_set1_ps(One))

ne(a, b) == operator_and(operator_ne(a, b), _mm256_set1_ps(One))

gt(a, b) == operator_and(operator_gt(a, b), _mm256_set1_ps(One))

ge(a, b) == operator_and(operator_ge(a, b), _mm256_set1_ps(One))

lt(a, b) == operator_and(operator_lt(a, b), _mm256_set1_ps(One))

le(a, b) == operator_and(operator_le(a, b), _mm256_set1_ps(One))

\* maximum without the NaN pattern or-ed in
maximum_plain(a, b) == _mm256_max_ps(a, b)

maximum(a, b) ==
  _mm256_or_ps(_mm256_max_ps(a, b), _mm256_cmp_ps(a, b, "_CMP_UNORD_Q"))

minimum(a, b) ==
  _mm256_or_ps(_mm256_min_ps(a, b), _mm256_cmp_ps(a, b, "_CMP_UNORD_Q"))

----------------------------------------------------------------------------
(* The comparison specification: function and operands are drawn in Init *)

MaskOps == {"operator==", "operator!=", "operator<", "operator<=",
            "operator>", "operator>="}

NamedOps == {"eq", "ne", "gt", "ge", "lt", "le"}

MinMaxOps == {"maximum", "minimum"}

\* every pair of samples meets in lane 0 of some pair of operands
ArgsCmp ==
  {[fn |-> f, pa |-> p, pb |-> q] :
     f \in MaskOps \cup NamedOps \cup MinMaxOps,
     p \in 0..(Len(Samples) - 1), q \in 0..(Len(Samples) - 1)}

InitCmp ==
  /\ pc = "ready"
  /\ args \in ArgsCmp
  /\ src = <<>>
  /\ dst = <<>>
  /\ back = <<>>
  /\ reads = {}
  /\ writes = {}
  /\ va = SampleVec(args.pa)
  /\ vb = SampleVec3(args.pb)
  /\ ret = NoLane
  /\ calls = <<>>
  /\ err = ""

\* the function named fn is called on (va, vb) and returns v
Yield(fn, v) ==
  /\ pc = "ready"
  /\ args.fn = fn
  /\ ret' = v
  /\ pc' = "done"
  /\ UNCHANGED <<args, src, dst, back, reads, writes, va, vb, calls, err>>

CallOperatorEq == Yield("operator==", operator_eq(va, vb))

CallOperatorNe == Yield("operator!=", operator_ne(va, vb))

CallOperatorLt == Yield("operator<", operator_lt(va, vb))

CallOperatorLe == Yield("operator<=", operator_le(va, vb))

CallOperatorGt == Yield("operator>", operator_gt(va, vb))

CallOperatorGe == Yield("operator>=", operator_ge(va, vb))

CallEq == Yield("eq", eq(va, vb))

CallNe == Yield("ne", ne(va, vb))

CallGt == Yield("gt", gt(va, vb))

CallGe == Yield("ge", ge(va, vb))

CallLt == Yield("lt", lt(va, vb))

CallLe == Yield("le", le(va, vb))

CallMaximum == Yield("maximum", maximum(va, vb))

CallMinimum == Yield("minimum", minimum(va, vb))

NextCmp ==
  \/ CallOperatorEq \/ CallOperatorNe \/ CallOperatorLt
  \/ CallOperatorLe \/ CallOperatorGt \/ CallOperatorGe
  \/ CallEq \/ CallNe \/ CallGt \/ CallGe \/ CallLt \/ CallLe
  \/ CallMaximum \/ CallMinimum

SpecCmp == InitCmp /\ [][NextCmp]_vars

\* the comparison of the values of two floats neither of which is a NaN,
\* for the function named fn
Ordinary(fn, x, y) ==
  CASE fn \in {"operator==", "eq"} -> Val(x) = Val(y)
    [] fn \in {"operator!=", "ne"} -> Val(x) # Val(y)
    [] fn \in {"operator<", "lt"}  -> Val(x) < Val(y)
    [] fn \in {"operator<=", "le"} -> Val(x) <= Val(y)
    [] fn \in {"operator>", "gt"}  -> Val(x) > Val(y)
    [] fn \in {"operator>=", "ge"} -> Val(x) >= Val(y)

\* the lane with every bit of x inverted
Complement(x) == F(1 - SignOf(x), 255 - ExpOf(x), 8388607 - MantOf(x))

----------------------------------------------------------------------------
(* has_inf_nan *)

IsInf(x) == ExpOf(x) = 255 /\ MantOf(x) = 0

\* x - x on one lane: +0 for a finite x, the default NaN for an infinity,
\* the NaN itself, made quiet, for a NaN
SelfSubLane(x) ==
  IF IsNaN(x) THEN F(SignOf(x), 255, BitOr(MantOf(x), 4194304))
  ELSE IF IsInf(x) THEN F(1, 255, 4194304)
  ELSE Zero

\* the subtraction forgotten: the value itself is tested
SelfSub_identity(v) == v

\* _mm256_sub_ps(values, values)
SelfSub(v) == Vec([k \in Lanes |-> SelfSubLane(Lane(v, k))])

\* bit n (0..31) of the pattern of the float x
PatternBit(x, n) ==
  IF n = 31 THEN SignOf(x) = 1
  ELSE IF n >= 23 THEN Bit(ExpOf(x), n - 23)
  ELSE Bit(MantOf(x), n)

\* _mm256_movemask_epi8(_mm256_castps_si256(v)), as the set of its set bits:
\* bit 4k + b is the top bit of byte b of lane k
_mm256_movemask_epi8(v) ==
  {4 * k + b : k \in Lanes, b \in 0..3} \cap
  {n \in 0..31 : PatternBit(Lane(v, n \div 4), 8 * (n % 4) + 7)}

\* 0x77777777, as the set of its set bits
Mask77 == {n \in 0..31 : n % 4 # 3}

has_inf_nan(v) == (_mm256_movemask_epi8(SelfSub(v)) \cap Mask77) # {}

----------------------------------------------------------------------------
(* The has_inf_nan specification *)

\* finite floats: both zeros, the smallest and the largest denormal, the
\* smallest normal, 1, -1, FLT_MAX, and a float whose pattern has bits 7,
\* 15 and 23 set
Finite ==
  << F(0, 0, 0), F(1, 0, 0), F(0, 0, 1), F(0, 0, 8388607), F(0, 1, 0),
     F(0, 127, 0), F(1, 127, 0), F(0, 254, 8388607), F(1, 253, 32896) >>

\* the infinities and NaNs: quiet, signalling, all ones, negative quiet
Special ==
  << F(0, 255, 0), F(1, 255, 0), F(0, 255, 4194304), F(0, 255, 1),
     F(1, 255, 8388607), F(1, 255, 4194304), F(0, 255, 32896) >>

\* lanes p, p+1, ... of Finite, lane `at` replaced by Special[sp] (no lane
\* when at = size)
ArgsInf ==
  {[fn |-> "has_inf_nan", seed |-> p, at |-> k, sp |-> i] :
     p \in 0..(Len(Finite) - 1), k \in 0..size, i \in 1..Len(Special)}

InitInf ==
  /\ pc = "ready"
  /\ args \in ArgsInf
  /\ src = <<>>
  /\ dst = <<>>
  /\ back = <<>>
  /\ reads = {}
  /\ writes = {}
  /\ va = Vec([k \in Lanes |->
               IF k = args.at THEN Special[args.sp]
               ELSE Finite[((args.seed + k) % Len(Finite)) + 1]])
  /\ vb = NoLane
  /\ ret = NoLane
  /\ calls = <<>>
  /\ err = ""

\* ret = va.has_inf_nan()
CallHasInfNan ==
  /\ pc = "ready"
  /\ args.fn = "has_inf_nan"
  /\ ret' = has_inf_nan(va)
  /\ pc' = "done"
  /\ UNCHANGED <<args, src, dst, back, reads, writes, va, vb, calls, err>>

NextInf == CallHasInfNan

SpecInf == InitInf /\ [][NextInf]_vars

----------------------------------------------------------------------------
(* onednn_tensor.cpp: data_ptr_from_mkldnn, mkldnn_tensor_from_data_ptr *)

ErrDisabled == "oneDNN build is disabled"

\* a call of a function of at::native with its arguments
NativeCall(fn, a) == [fn |-> fn, args |-> a]

\* what a call of the native backend returns
NativeResult(c) == [result_of |-> c]

\* the outcome of a function that throws msg
Throws(msg) == [err |-> msg, calls |-> <<>>, ret |-> <<>>]

\* the outcome of a function that returns what the native call c returns
Delegates(c) == [err |-> "", calls |-> <<c>>, ret |-> NativeResult(c)]

\* the at::Tensor a non-null at::Tensor* points to
Deref(t) == [tensor |-> t]

\* data_ptr_from_mkldnn returning a null pointer in the disabled build
data_ptr_from_mkldnn_null(enabled, t) ==
  IF enabled
  THEN Delegates(NativeCall("at::native::data_ptr_from_mkldnn", <<Deref(t)>>))
  ELSE [err |-> "", calls |-> <<>>, ret |-> 0]

\* data_ptr_from_mkldnn(mkldnn_tensor) in the build with
\* AT_ONEDNN_ENABLED() = enabled
data_ptr_from_mkldnn(enabled, t) ==
  IF enabled
  THEN Delegates(NativeCall("at::native::data_ptr_from_mkldnn", <<Deref(t)>>))
  ELSE Throws(ErrDisabled)

\* mkldnn_tensor_from_data_ptr(data_ptr, dims, dtype, device,
\* opaque_metadata, opaque_metadata_size), a the tuple of the six arguments
mkldnn_tensor_from_data_ptr(enabled, a) ==
  IF enabled
  THEN Delegates(NativeCall("at::native::mkldnn_tensor_from_data_ptr", a))
  ELSE Throws(ErrDisabled)

----------------------------------------------------------------------------
(* The oneDNN shim specification: the build and the arguments are drawn *)

\* a null tensor pointer is passed only where it is never dereferenced
ArgsDataPtr ==
  {[fn |-> "data_ptr_from_mkldnn", enabled |-> e, a |-> <<t>>] :
     e \in BOOLEAN, t \in 0..MaxPtr} \
  {[fn |-> "data_ptr_from_mkldnn", enabled |-> TRUE, a |-> <<0>>]}

ArgsFromPtr ==
  {[fn |-> "mkldnn_tensor_from_data_ptr", enabled |-> e,
    a |-> <<ptr, dims, dtype, "cpu", meta, msize>>] :
     e \in BOOLEAN, ptr \in 0..MaxPtr, dims \in {<<>>, <<4>>, <<2, 3>>},
     dtype \in {"Float", "BFloat16"}, meta \in 0..MaxPtr, msize \in {0, 16}}

InitDnn ==
  /\ pc = "ready"
  /\ args \in ArgsDataPtr \cup ArgsFromPtr
  /\ src = <<>>
  /\ dst = <<>>
  /\ back = <<>>
  /\ reads = {}
  /\ writes = {}
  /\ va = NoLane
  /\ vb = NoLane
  /\ ret = <<>>
  /\ calls = <<>>
  /\ err = ""

\* the shim function has returned or thrown r
ShimReturned(r) ==
  /\ pc' = IF r.err = "" THEN "done" ELSE "error"
  /\ ret' = r.ret
  /\ calls' = r.calls
  /\ err' = r.err
  /\ UNCHANGED <<args, src, dst, back, reads, writes, va, vb>>

CallDataPtrFromMkldnn ==
  /\ pc = "ready"
  /\ args.fn = "data_ptr_from_mkldnn"
  /\ ShimReturned(data_ptr_from_mkldnn(args.enabled, args.a[1]))

CallMkldnnTensorFromDataPtr ==
  /\ pc = "ready"
  /\ args.fn = "mkldnn_tensor_from_data_ptr"
  /\ ShimReturned(mkldnn_tensor_from_data_ptr(args.enabled, args.a))

NextDnn == CallDataPtrFromMkldnn \/ CallMkldnnTensorFromDataPtr

SpecDnn == InitDnn /\ [][NextDnn]_vars

----------------------------------------------------------------------------
\* C1: after transpose_mxn returns, dst[j*ld_dst + i] = src[i*ld_src + j]
\* for every i < M and j < N, for all M, N >= 0 and ld_src >= N, ld_dst >= M.
C1_TransposeMxN ==
  (args.fn = "transpose_mxn" /\ pc # "ready") =>
     /\ pc = "done"
     /\ \A i \in 0..(args.M - 1), j \in 0..(args.N - 1) :
           dst[j * args.ld_dst + i] = src[i * args.ld_src + j]

\* a transpose_mxn of a matrix with full tiles and both remainders is done
C1_Witness ==
  /\ args.fn = "transpose_mxn"
  /\ pc = "done"
  /\ args.M = 13
  /\ args.N = 10
  /\ dst[9 * args.ld_dst + 12] = src[12 * args.ld_src + 9]

\* C2: transpose_mxn_8x8 called with M > 8 or N > 8 fails with the reported
\* precondition error before any load or store: nothing is read, no element
\* of dst is written, and the block is not cut down to 8.
C2_BlockTooLarge ==
  (args.fn = "transpose_mxn_8x8" /\ (args.M > 8 \/ args.N > 8) /\ pc # "ready") =>
     /\ pc = "error"
     /\ err = ErrBlock
     /\ reads = {}
     /\ writes = {}
     /\ dst = DstInit(args)

\* a call with a block of 9 rows has failed
C2_Witness ==
  /\ args.fn = "transpose_mxn_8x8"
  /\ args.M = 9
  /\ args.N = 3
  /\ pc = "error"
  /\ err = ErrBlock

\* C3: for M, N in 0..8 transpose_mxn_8x8 reads only src[i*ld_src + j] and
\* writes only dst[j*ld_dst + i] with i < M, j < N; every other element of
\* dst is unchanged and no zero of an unused register reaches dst.
C3_Frame ==
  (args.fn = "transpose_mxn_8x8" /\ args.M <= 8 /\ args.N <= 8 /\ pc = "done") =>
     LET S == {i * args.ld_src + j : i \in 0..(args.M - 1), j \in 0..(args.N - 1)}
         D == {j * args.ld_dst + i : i \in 0..(args.M - 1), j \in 0..(args.N - 1)}
     IN  /\ reads \subseteq S
         /\ writes \subseteq D
         /\ DOMAIN dst = DOMAIN DstInit(args)
         /\ \A x \in DOMAIN dst :
               /\ x \notin D => dst[x] = DstInit(args)[x]
               /\ dst[x] # Zero

\* a partial block was transposed into a destination with a padding column
\* and a spare row, which still hold what they held
C3_Witness ==
  /\ args.fn = "transpose_mxn_8x8"
  /\ pc = "done"
  /\ args.M = 3
  /\ args.N = 5
  /\ args.ld_dst = 4
  /\ writes # {}
  /\ dst[3] = F(0, 1, 3)
  /\ dst[5 * 4] = F(0, 1, 20)
  /\ dst[4 * 4 + 2] = src[2 * args.ld_src + 4]

\* C4: for M, N in 1..8, transpose_mxn_8x8 with (M, N) followed by
\* transpose_mxn_8x8 with (N, M) on its result gives back the matrix,
\* element for element.
C4_RoundTrip ==
  (args.fn = "transpose_mxn_8x8" /\ args.M \in 1..8 /\ args.N \in 1..8 /\
   pc \notin {"ready", "done"}) =>
     /\ pc = "back"
     /\ \A i \in 0..(args.M - 1), j \in 0..(args.N - 1) :
           back[i * args.ld_src + j] = src[i * args.ld_src + j]

\* a 7 x 6 block went there and back
C4_Witness ==
  /\ args.fn = "transpose_mxn_8x8"
  /\ pc = "back"
  /\ args.M = 7
  /\ args.N = 6
  /\ back[6 * args.ld_src + 5] = src[6 * args.ld_src + 5]
  /\ dst[5 * args.ld_dst + 6] = src[6 * args.ld_src + 5]

\* C5: for count in 0..8, loadu(ptr, count) has ptr[0..count) in lanes
\* [0, count) and exactly zero in lanes [count, 8), reads nothing at or
\* beyond ptr + count, and nothing the temporary buffer held appears.
C5_Loadu ==
  (args.fn = "loadu" /\ pc # "ready") =>
     /\ \A k \in Lanes :
           Lane(ret, k) = IF k < args.count THEN src[k] ELSE Zero
     /\ reads \subseteq 0..(args.count - 1)

\* three elements were loaded from a pointer to three floats, none of them
\* zero, with junk in the temporary buffer
C5_Witness ==
  /\ args.fn = "loadu"
  /\ pc = "loaded"
  /\ args.count = 3
  /\ args.seed = 1
  /\ args.junk = F(1, 255, 8388607)
  /\ Lane(ret, 2) = F(0, 126, 0)
  /\ Lane(ret, 3) = Zero
  /\ reads = {0, 1, 2}

\* C6: loadu(ptr, count) followed by store(buf, count) makes buf[0..count)
\* equal to ptr[0..count) and leaves buf[count..) unchanged; with count = 0
\* nothing is written, otherwise exactly count elements are.
C6_LoadStore ==
  (args.fn = "loadu" /\ pc = "stored") =>
     /\ DOMAIN dst = DOMAIN BufInit(args)
     /\ \A k \in DOMAIN dst :
           dst[k] = IF k < args.count THEN src[k] ELSE BufInit(args)[k]
     /\ writes = 0..(args.count - 1)
     /\ Cardinality(writes) = args.count

\* five elements went from ptr to buf; the sixth element of buf is untouched
C6_Witness ==
  /\ args.fn = "loadu"
  /\ pc = "stored"
  /\ args.count = 5
  /\ args.seed = 1
  /\ dst[4] = src[4]
  /\ dst[4] # BufInit(args)[4]
  /\ dst[5] = BufInit(args)[5]

\* C7: for count in 0..8, set(a, b, count) is b in lanes [0, count) and a
\* in lanes [count, 8); for count >= 8 it is b.
C7_Set ==
  (args.fn = "set" /\ pc = "done") =>
     \A k \in Lanes :
        Lane(ret, k) = IF k < args.count THEN Lane(vb, k) ELSE Lane(va, k)

\* set with count = 3 on operands that differ in every lane
C7_Witness ==
  /\ args.fn = "set"
  /\ pc = "done"
  /\ args.count = 3
  /\ \A k \in Lanes : Lane(va, k) # Lane(vb, k)
  /\ Lane(ret, 2) = Lane(vb, 2)
  /\ Lane(ret, 3) = Lane(va, 3)

\* C8: on every lane, ==, <, <=, >, >= give all bits clear when an operand
\* is a NaN and otherwise all bits set or clear as the ordinary comparison
\* says; != gives all bits set when an operand is a NaN; and a != b is the
\* bitwise complement of a == b.
C8_MaskOps ==
  (args.fn \in MaskOps /\ pc = "done") =>
     \A k \in Lanes :
        LET x   == Lane(va, k)
            y   == Lane(vb, k)
            r   == Lane(ret, k)
            nan == IsNaN(x) \/ IsNaN(y)
        IN  /\ r \in {AllOnes, Zero}
            /\ (args.fn # "operator!=" /\ nan) => r = Zero
            /\ (args.fn # "operator!=" /\ ~nan) =>
                  (r = AllOnes <=> Ordinary(args.fn, x, y))
            /\ (args.fn = "operator!=" /\ nan) => r = AllOnes
            /\ args.fn = "operator!=" =>
                  r = Complement(Lane(operator_eq(va, vb), k))

\* a != b was computed with a NaN in lane 0 of a and 1.0 in lane 0 of b
C8_Witness ==
  /\ args.fn = "operator!="
  /\ pc = "done"
  /\ IsNaN(Lane(va, 0))
  /\ Lane(vb, 0) = One
  /\ Lane(ret, 0) = AllOnes
  /\ \E k \in Lanes : Lane(ret, k) = Zero

\* C9: every lane of eq, ne, gt, ge, lt, le is exactly 1.0 or 0.0, never
\* the mask; eq is 1.0 where a == b and 0.0 elsewhere, also when an operand
\* is a NaN; ne is 1.0 when an operand is a NaN; gt, ge, lt, le are 0.0
\* when an operand is a NaN.
C9_NamedOps ==
  (args.fn \in NamedOps /\ pc = "done") =>
     \A k \in Lanes :
        LET x   == Lane(va, k)
            y   == Lane(vb, k)
            r   == Lane(ret, k)
            nan == IsNaN(x) \/ IsNaN(y)
        IN  /\ r \in {One, Zero}
            /\ nan => r = IF args.fn = "ne" THEN One ELSE Zero
            /\ ~nan => (r = One <=> Ordinary(args.fn, x, y))

\* eq was computed on operands with equal lanes, unequal lanes and a lane
\* holding the same NaN on both sides
C9_Witness ==
  /\ args.fn = "eq"
  /\ pc = "done"
  /\ \E k \in Lanes : Lane(ret, k) = One
  /\ \E k \in Lanes :
        IsNaN(Lane(va, k)) /\ Lane(va, k) = Lane(vb, k) /\ Lane(ret, k) = Zero
  /\ \E k \in Lanes :
        ~IsNaN(Lane(va, k)) /\ ~IsNaN(Lane(vb, k)) /\ Lane(ret, k) = Zero

\* C10: on every lane, maximum and minimum are a NaN when a or b is a NaN,
\* whichever it is, and the ordinary maximum / minimum of a and b otherwise
\* (one of the two operands, not below / not above either).
C10_MinMax ==
  (args.fn \in MinMaxOps /\ pc = "done") =>
     \A k \in Lanes :
        LET x == Lane(va, k)
            y == Lane(vb, k)
            r == Lane(ret, k)
        IN  IF IsNaN(x) \/ IsNaN(y) THEN IsNaN(r)
            ELSE /\ r \in {x, y}
                 /\ args.fn = "maximum" => Val(r) >= Val(x) /\ Val(r) >= Val(y)
                 /\ args.fn = "minimum" => Val(r) <= Val(x) /\ Val(r) <= Val(y)

\* maximum was computed with a NaN in a only in one lane, in b only in
\* another, and two numbers with the larger in a in a third
C10_Witness ==
  /\ args.fn = "maximum"
  /\ pc = "done"
  /\ \E k \in Lanes :
        IsNaN(Lane(va, k)) /\ ~IsNaN(Lane(vb, k)) /\ IsNaN(Lane(ret, k))
  /\ \E k \in Lanes :
        ~IsNaN(Lane(va, k)) /\ IsNaN(Lane(vb, k)) /\ IsNaN(Lane(ret, k))
  /\ \E k \in Lanes :
        /\ ~IsNaN(Lane(va, k)) /\ ~IsNaN(Lane(vb, k))
        /\ Val(Lane(va, k)) > Val(Lane(vb, k))
        /\ Lane(ret, k) = Lane(va, k)

\* C11: has_inf_nan(v) is true exactly when some lane of v is +Inf, -Inf or
\* a NaN, and false when every lane is finite (zeros of both signs and
\* denormals included); the test is that a bit among 7, 15, 23 of some lane
\* of v - v is set.
C11_HasInfNan ==
  (args.fn = "has_inf_nan" /\ pc = "done") =>
     /\ ret = (\E k \in Lanes : IsInf(Lane(va, k)) \/ IsNaN(Lane(va, k)))
     /\ ret = (\E k \in Lanes, n \in {7, 15, 23} :
                  PatternBit(SelfSubLane(Lane(va, k)), n))

\* has_inf_nan was true on a value whose only non-finite lane is -Inf
C11_Witness ==
  /\ args.fn = "has_inf_nan"
  /\ pc = "done"
  /\ ret = TRUE
  /\ Lane(va, 5) = F(1, 255, 0)
  /\ \A k \in Lanes \ {5} : ~IsInf(Lane(va, k)) /\ ~IsNaN(Lane(va, k))

\* has_inf_nan was false on finite lanes with zeros, denormals and a float
\* with bits 7, 15 and 23 set
C11_WitnessFinite ==
  /\ args.fn = "has_inf_nan"
  /\ pc = "done"
  /\ ret = FALSE
  /\ \E k \in Lanes : Lane(va, k) = F(1, 0, 0)
  /\ \E k \in Lanes : Lane(va, k) = F(1, 253, 32896)

\* C12: in a build without oneDNN every call of data_ptr_from_mkldnn and of
\* mkldnn_tensor_from_data_ptr fails with "oneDNN build is disabled" and
\* returns nothing; in a build with it each call makes exactly the call of
\* the native function of the same name, on the same arguments (the tensor
\* pointed to, for data_ptr_from_mkldnn), and returns its result.
C12_OneDnnGate ==
  (args.fn \in {"data_ptr_from_mkldnn", "mkldnn_tensor_from_data_ptr"} /\
   pc # "ready") =>
     IF args.enabled
     THEN /\ pc = "done"
          /\ err = ""
          /\ Len(calls) = 1
          /\ calls[1].fn = "at::native::" \o args.fn
          /\ calls[1].args =
               IF args.fn = "data_ptr_from_mkldnn"
               THEN <<[tensor |-> args.a[1]]>> ELSE args.a
          /\ ret = [result_of |-> calls[1]]
     ELSE /\ pc = "error"
          /\ err = "oneDNN build is disabled"
          /\ calls = <<>>
          /\ ret = <<>>

\* data_ptr_from_mkldnn has failed in the build without oneDNN
C12_Witness ==
  /\ args.fn = "data_ptr_from_mkldnn"
  /\ ~args.enabled
  /\ args.a = <<1>>
  /\ pc = "error"
  /\ err = ErrDisabled

\* the tiles of an M x N matrix in row-major tile order, each as the call of
\* transpose_mxn_8x8 that the tiling by 8 x 8 blocks names
ExpectedTiles(ld_src, ld_dst, M, N) ==
  LET R == (M + 7) \div 8
      C == (N + 7) \div 8
  IN  [k \in 1..(R * C) |->
         LET r == (k - 1) \div C
             c == (k - 1) % C
         IN  Call8x8(r * 8 * ld_src + c * 8, c * 8 * ld_dst + r * 8,
                     Min(8, M - 8 * r), Min(8, N - 8 * c))]

\* element (i, j) of the source lies in the block of the call cl
InBlock(cl, ld_dst, i, j) ==
  LET i0 == cl.do % ld_dst
      j0 == cl.do \div ld_dst
  IN  i \in i0..(i0 + cl.M - 1) /\ j \in j0..(j0 + cl.N - 1)

\* C13: for every M >= 0 and N >= 0 the calls of transpose_mxn_8x8 made by
\* transpose_mxn are exactly one per tile (r, c), r < ceil(M/8),
\* c < ceil(N/8), in row-major order, at source offset r*8*ld_src + c*8 and
\* destination offset c*8*ld_dst + r*8, with m = min(8, M - 8r) and
\* n = min(8, N - 8c) both in 1..8; no call is made for an empty block, the
\* M <= 8 and N <= 8 check never fails, and every element lies in exactly
\* one tile.
C13_TileSequence ==
  (args.fn = "transpose_mxn" /\ pc # "ready") =>
     /\ calls = ExpectedTiles(args.ld_src, args.ld_dst, args.M, args.N)
     /\ \A k \in 1..Len(calls) : calls[k].M \in 1..8 /\ calls[k].N \in 1..8
     /\ pc = "done"
     /\ err = ""
     /\ \A i \in 0..(args.M - 1), j \in 0..(args.N - 1) :
           Cardinality({k \in 1..Len(calls) :
                          InBlock(calls[k], args.ld_dst, i, j)}) = 1

\* transpose_mxn has made a call for a block of no columns
C13_EmptyBlockCall ==
  /\ args.fn = "transpose_mxn"
  /\ pc = "done"
  /\ args.M = 9
  /\ args.N = 8
  /\ Len(calls) = 3
  /\ calls[3] = Call8x8(8 * args.ld_src + 8, 8 * args.ld_dst + 8, 1, 0)

\* apart from the calls for a block of no columns, which are made last and
\* only when M is not and N is a multiple of 8, the calls are the tiles
C13_NonEmptyCalls ==
  (args.fn = "transpose_mxn" /\ pc # "ready") =>
     /\ SelectSeq(calls, LAMBDA cl : cl.N > 0) =
          ExpectedTiles(args.ld_src, args.ld_dst, args.M, args.N)
     /\ \A k \in 1..Len(calls) :
           calls[k].N = 0 <=>
             (k = Len(calls) /\ args.M % 8 # 0 /\ args.N % 8 = 0)
     /\ \A k \in 1..Len(calls) : calls[k].M \in 1..8 /\ calls[k].N \in 0..8
     /\ pc = "done"
     /\ \A i \in 0..(args.M - 1), j \in 0..(args.N - 1) :
           Cardinality({k \in 1..Len(calls) :
                          InBlock(calls[k], args.ld_dst, i, j)}) = 1

====
